---- MODULE Spec2Model ----
(***************************************************************************)
(* The interactive shell of main.py driving DataAnalysisAgent (agent.py). *)
(* Text is a sequence of one-character strings, so that lower(), strip(), *)
(* slicing, len() and concatenation are computed character by character.  *)
(* The emoji and the leading newlines of the printed messages are left    *)
(* out of the message literals.                                            *)
(***************************************************************************)
EXTENDS Integers, Sequences, FiniteSets, TLC

VARIABLES
    pc,            \* position of the single shell thread
    user_input,    \* main: the line last returned by input()
    response,      \* main: the value agent.chat last returned
    chat_history,  \* DataAnalysisAgent.chat_history
    inputs,        \* chat: the request dict, <<>> outside a call
    rsp,           \* chat: the value agent_executor.invoke returned, <<>> if none
    exc,           \* the exception in flight
    out,           \* what the last step printed, one element per line
    ev,            \* name of the last step taken
    nCalls,        \* number of agent.chat calls started
    calls,         \* log: (question, returned text, ok) of each call since the last clear
    fresh          \* TRUE iff no question was asked since the last clear

vars == <<pc, user_input, response, chat_history, inputs, rsp, exc, out, ev,
          nCalls, calls, fresh>>

\* Cap on the number of agent.chat calls in one run.
MaxCalls == 2

-----------------------------------------------------------------------------
\* Text literals

QuitWords == { <<"q", "u", "i", "t">>, <<"e", "x", "i", "t">>, <<"q">> }

ClearWords == { <<"c", "l", "e", "a", "r">>,
                <<"c", "l", "e", "a", "r", " ", "h", "i", "s", "t", "o", "r", "y">> }

HistoryWords == { <<"h", "i", "s", "t", "o", "r", "y">>,
                  <<"s", "h", "o", "w", " ", "h", "i", "s", "t", "o", "r", "y">> }

ErrorPrefix == <<"E", "x", "e", "c", "u", "t", "i", "o", "n", " ", "e", "r", "r", "o", "r", ":", " ">>

Goodbye == <<"G", "o", "o", "d", "b", "y", "e", "!">>

ClearedNotice == <<"C", "h", "a", "t", " ", "h", "i", "s", "t", "o", "r", "y", " ", "c", "l", "e", "a", "r", "e", "d", ".">>

HistoryHeader == <<"C", "h", "a", "t", " ", "H", "i", "s", "t", "o", "r", "y", ":">>

NoHistoryNotice == <<"N", "o", " ", "c", "h", "a", "t", " ", "h", "i", "s", "t", "o", "r", "y", " ", "y", "e", "t", ".">>

Ellipsis == <<".", ".", ".">>

EnterValid == <<"P", "l", "e", "a", "s", "e", " ", "e", "n", "t", "e", "r", " ", "a", " ", "v", "a", "l", "i", "d", " ", "q", "u", "e", "s", "t", "i", "o", "n", ".">>

UserQuestion == <<"U", "s", "e", "r", " ", "Q", "u", "e", "s", "t", "i", "o", "n", ":", " ">>

ErrorLabel == <<"E", "r", "r", "o", "r", ":", " ">>

AgentResponse == <<"A", "g", "e", "n", "t", " ", "R", "e", "s", "p", "o", "n", "s", "e", ":">>

UnexpectedError == <<"U", "n", "e", "x", "p", "e", "c", "t", "e", "d", " ", "e", "r", "r", "o", "r", ":", " ">>

TryAgain == <<"P", "l", "e", "a", "s", "e", " ", "t", "r", "y", " ", "a", "g", "a", "i", "n", " ", "o", "r", " ", "r", "e", "s", "t", "a", "r", "t", " ", "t", "h", "e", " ", "a", "p", "p", "l", "i", "c", "a", "t", "i", "o", "n", ".">>

FailedToInitialize == <<"F", "a", "i", "l", "e", "d", " ", "t", "o", " ", "i", "n", "i", "t", "i", "a", "l", "i", "z", "e", ":", " ">>

CheckConfiguration == <<"P", "l", "e", "a", "s", "e", " ", "c", "h", "e", "c", "k", " ", "y", "o", "u", "r", " ", "c", "o", "n", "f", "i", "g", "u", "r", "a", "t", "i", "o", "n", " ", "a", "n", "d", " ", "t", "r", "y", " ", "a", "g", "a", "i", "n", ".">>

\* The length at which the history display cuts an answer.
TruncLen == 100

-----------------------------------------------------------------------------
\* str methods and formatting

UpperCase == <<"A", "B", "C", "D", "E", "F", "G", "H", "I", "J", "K", "L", "M",
               "N", "O", "P", "Q", "R", "S", "T", "U", "V", "W", "X", "Y", "Z">>

LowerCase == <<"a", "b", "c", "d", "e", "f", "g", "h", "i", "j", "k", "l", "m",
               "n", "o", "p", "q", "r", "s", "t", "u", "v", "w", "x", "y", "z">>

Whitespace == {" ", "\t", "\n"}

Digits == <<"0", "1", "2", "3", "4", "5", "6", "7", "8", "9">>

LowerChar(c) ==
    IF \E i \in DOMAIN UpperCase : UpperCase[i] = c
    THEN LowerCase[CHOOSE i \in DOMAIN UpperCase : UpperCase[i] = c]
    ELSE c

\* str.lower()
Lower(s) == [i \in 1..Len(s) |-> LowerChar(s[i])]

RECURSIVE LStrip(_)
LStrip(s) == IF s # <<>> /\ Head(s) \in Whitespace THEN LStrip(Tail(s)) ELSE s

RECURSIVE RStrip(_)
RStrip(s) ==
    IF s # <<>> /\ s[Len(s)] \in Whitespace
    THEN RStrip(SubSeq(s, 1, Len(s) - 1))
    ELSE s

\* str.strip()
Strip(s) == RStrip(LStrip(s))

\* The decimal text of a natural number, as an f-string formats it.
RECURSIVE DecStr(_)
DecStr(n) ==
    IF n < 10 THEN <<Digits[n + 1]>>
    ELSE DecStr(n \div 10) \o <<Digits[(n % 10) + 1]>>

\* a[:k]
Slice(a, k) == SubSeq(a, 1, IF Len(a) < k THEN Len(a) ELSE k)

-----------------------------------------------------------------------------
\* Exceptions

ClassParent ==
    [c \in {"Exception", "KeyboardInterrupt", "EOFError", "RuntimeError",
            "ValueError", "MemoryError", "LookupError", "KeyError"} |->
        CASE c = "Exception"         -> "BaseException"
          [] c = "KeyboardInterrupt" -> "BaseException"
          [] c = "KeyError"          -> "LookupError"
          [] OTHER                   -> "Exception"]

\* Whether an exception of class cls matches "except target".
RECURSIVE IsInstance(_, _)
IsInstance(cls, target) ==
    \/ cls = target
    \/ /\ cls \in DOMAIN ClassParent
       /\ IsInstance(ClassParent[cls], target)

NoExc == [cls |-> "None", origin |-> "none", arg |-> <<>>]

KeyboardInterrupt == [cls |-> "KeyboardInterrupt", origin |-> "signal", arg |-> <<>>]

\* str(e): the message, except that a KeyError shows the repr of its key.
StrOf(e) ==
    IF IsInstance(e.cls, "KeyError") THEN <<"'">> \o e.arg \o <<"'">> ELSE e.arg

ChatCatchesNarrow(cls) == IsInstance(cls, "ValueError")

ChatCatchesAll(cls) == IsInstance(cls, "BaseException")

\* agent.py:117  except Exception as e
ChatCatches(cls) == IsInstance(cls, "Exception")

\* main.py:117  except KeyboardInterrupt
LoopCatchesInterrupt(cls) == IsInstance(cls, "KeyboardInterrupt")

LoopCatchesNothing(cls) == FALSE

\* main.py:120  except Exception as e
LoopCatchesException(cls) == IsInstance(cls, "Exception")

\* main.py:124  except Exception as e
OuterCatches(cls) == IsInstance(cls, "Exception")

-----------------------------------------------------------------------------
\* The shell's classification of a line, in the order of the code

IsQuitExact(line) == line \in QuitWords

IsQuit(line) == Lower(line) \in QuitWords

IsClear(line) == Lower(line) \in ClearWords

IsHistory(line) == Lower(line) \in HistoryWords

IsBlankNoStrip(line) == line = <<>>

IsBlank(line) == Strip(line) = <<>>

Classify(line) ==
    IF IsQuit(line) THEN "quit"
    ELSE IF IsClear(line) THEN "clear"
    ELSE IF IsHistory(line) THEN "history"
    ELSE IF IsBlank(line) THEN "empty"
    ELSE "question"

\* The lines input() may return.
Lines ==
    { <<"q", "u", "i", "t">>, <<"Q", "U", "I", "T">>, <<"Q">>, <<"e", "X", "i", "t">>,
      <<"c", "l", "e", "a", "r">>,
      <<"C", "L", "E", "A", "R", " ", "H", "I", "S", "T", "O", "R", "Y">>,
      <<"h", "i", "s", "t", "o", "r", "y">>,
      <<"S", "h", "o", "w", " ", "H", "i", "s", "t", "o", "r", "y">>,
      <<>>, <<" ", "\t">>,
      <<"h", "i">>, <<" ", "q">> }

-----------------------------------------------------------------------------
\* History display

ShownOffByOne(a) == IF Len(a) >= TruncLen THEN Slice(a, TruncLen) \o Ellipsis ELSE a

\* main.py:104  a[:100] + "..." if len(a) > 100 else a
Shown(a) == IF Len(a) > TruncLen THEN Slice(a, TruncLen) \o Ellipsis ELSE a

\* main.py:102-104, the two lines printed for turn i
TurnLines(i, turn) ==
    << DecStr(i) \o <<".", " ", "Q", ":", " ">> \o turn[1],
       <<" ", " ", " ", "A", ":", " ">> \o Shown(turn[2]) >>

RECURSIVE HistoryLines(_, _)
HistoryLines(h, i) ==
    IF i > Len(h) THEN <<>> ELSE TurnLines(i, h[i]) \o HistoryLines(h, i + 1)

\* main.py:99-106
HistoryDisplay(h) ==
    IF h # <<>> THEN <<HistoryHeader>> \o HistoryLines(h, 1) ELSE <<NoHistoryNotice>>

-----------------------------------------------------------------------------
\* DataAnalysisAgent

AppendTurnFront(h, q, a) == <<<<q, a>>>> \o h

\* self.chat_history.append((query, answer))
AppendTurn(h, q, a) == Append(h, <<q, a>>)

ClearHistoryKeepLast(h) == IF h = <<>> THEN <<>> ELSE <<h[Len(h)]>>

\* agent.py:127  self.chat_history = []
ClearHistory(h) == <<>>

ErrorMsgBare(e) == StrOf(e)

\* agent.py:118  f"Execution error: {str(e)}"
ErrorMsg(e) == ErrorPrefix \o StrOf(e)

AssembleInputsWithQuery(h, q) ==
    [csv_file_path |-> "data.csv", tools |-> "Python_REPL",
     chat_history |-> Append(h, <<q, <<>>>>),
     tool_names |-> "Python_REPL: A Python shell. ...",
     query |-> q, agent_scratchpad |-> <<>>]

\* agent.py:100-107
AssembleInputs(h, q) ==
    [csv_file_path |-> "data.csv", tools |-> "Python_REPL",
     chat_history |-> h,
     tool_names |-> "Python_REPL: A Python shell. ...",
     query |-> q, agent_scratchpad |-> <<>>]

\* Answer texts of chosen lengths; the character at position i is the last digit of i.
AnswerOfLen(n) == [i \in 1..n |-> Digits[(i % 10) + 1]]

Answers == { AnswerOfLen(n) : n \in {2, TruncLen, TruncLen + 1} }

\* What agent_executor.invoke may return: a dict with the output, or one without it.
Responses == { [output |-> a] : a \in Answers } \cup { [input |-> <<>>] }

\* The descriptions of the failures the engine may raise.
Descriptions == { <<"r", "a", "t", "e", " ", "l", "i", "m", "i", "t", " ", "e", "x", "c", "e", "e", "d", "e", "d">>, <<>> }

EOFText == <<"E", "O", "F", " ", "w", "h", "e", "n", " ", "r", "e", "a", "d", "i", "n", "g", " ", "a", " ", "l", "i", "n", "e">>

-----------------------------------------------------------------------------
Init ==
    /\ pc = "input"
    /\ user_input = <<>>
    /\ response = <<>>
    /\ chat_history = <<>>
    /\ inputs = <<>>
    /\ rsp = <<>>
    /\ exc = NoExc
    /\ out = <<>>
    /\ ev = "start"
    /\ nCalls = 0
    /\ calls = <<>>
    /\ fresh = TRUE

\* main.py:88-92
ShellQuit ==
    /\ pc = "input"
    /\ \E line \in Lines :
        /\ Classify(line) = "quit"
        /\ user_input' = line
    /\ out' = <<Goodbye>>
    /\ pc' = "done"
    /\ ev' = "ShellQuit"
    /\ UNCHANGED <<response, chat_history, inputs, rsp, exc, nCalls, calls, fresh>>

\* main.py:94-96 and agent.py:125-128
ShellClear ==
    /\ pc = "input"
    /\ \E line \in Lines :
        /\ Classify(line) = "clear"
        /\ user_input' = line
    /\ chat_history' = ClearHistory(chat_history)
    /\ out' = <<ClearedNotice>>
    /\ pc' = "input"
    /\ ev' = "ShellClear"
    /\ calls' = <<>>
    /\ fresh' = TRUE
    /\ UNCHANGED <<response, inputs, rsp, exc, nCalls>>

\* main.py:98-107 and agent.py:130-137
ShellHistory ==
    /\ pc = "input"
    /\ \E line \in Lines :
        /\ Classify(line) = "history"
        /\ user_input' = line
    /\ out' = HistoryDisplay(chat_history)
    /\ pc' = "input"
    /\ ev' = "ShellHistory"
    /\ UNCHANGED <<response, chat_history, inputs, rsp, exc, nCalls, calls, fresh>>

\* main.py:109-111
ShellEmpty ==
    /\ pc = "input"
    /\ \E line \in Lines :
        /\ Classify(line) = "empty"
        /\ user_input' = line
    /\ out' = <<EnterValid>>
    /\ pc' = "input"
    /\ ev' = "ShellEmpty"
    /\ UNCHANGED <<response, chat_history, inputs, rsp, exc, nCalls, calls, fresh>>

\* main.py:114 calling agent.py:86-98: the call is entered and the question echoed
ShellQuestion ==
    /\ pc = "input"
    /\ nCalls < MaxCalls
    /\ \E line \in Lines :
        /\ Classify(line) = "question"
        /\ user_input' = line
        /\ out' = <<UserQuestion \o line>>
    /\ nCalls' = nCalls + 1
    /\ fresh' = FALSE
    /\ pc' = "chat"
    /\ ev' = "ShellQuestion"
    /\ UNCHANGED <<response, chat_history, inputs, rsp, exc, calls>>

\* main.py:88  input() raises, e.g. EOFError on a closed stdin
InputRaises ==
    /\ pc = "input"
    /\ exc' = [cls |-> "EOFError", origin |-> "input", arg |-> EOFText]
    /\ out' = <<>>
    /\ pc' = "loop_except"
    /\ ev' = "InputRaises"
    /\ UNCHANGED <<user_input, response, chat_history, inputs, rsp, nCalls, calls, fresh>>

\* agent.py:98-107  the request is built; the engine call starts
ChatAssemble ==
    /\ pc = "chat"
    /\ inputs' = <<AssembleInputs(chat_history, user_input)>>
    /\ out' = <<>>
    /\ pc' = "engine"
    /\ ev' = "ChatAssemble"
    /\ UNCHANGED <<user_input, response, chat_history, rsp, exc, nCalls, calls, fresh>>

\* agent.py:100-107  building the request raises
ChatAssembleRaises ==
    /\ pc = "chat"
    /\ exc' = [cls |-> "MemoryError", origin |-> "assembly", arg |-> <<>>]
    /\ out' = <<>>
    /\ pc' = "chat_except"
    /\ ev' = "ChatAssembleRaises"
    /\ UNCHANGED <<user_input, response, chat_history, inputs, rsp, nCalls, calls, fresh>>

\* agent.py:110  agent_executor.invoke returns
EngineReturns ==
    /\ pc = "engine"
    /\ \E r \in Responses : rsp' = <<r>>
    /\ out' = <<>>
    /\ pc' = "resolved"
    /\ ev' = "EngineReturns"
    /\ UNCHANGED <<user_input, response, chat_history, inputs, exc, nCalls, calls, fresh>>

\* agent.py:110  agent_executor.invoke raises a failure of the engine or of the tool
EngineRaises ==
    /\ pc = "engine"
    /\ \E cls \in {"RuntimeError", "ValueError"},
          origin \in {"engine", "tool"}, d \in Descriptions :
        exc' = [cls |-> cls, origin |-> origin, arg |-> d]
    /\ out' = <<>>
    /\ pc' = "chat_except"
    /\ ev' = "EngineRaises"
    /\ UNCHANGED <<user_input, response, chat_history, inputs, rsp, nCalls, calls, fresh>>

\* agent.py:113-115 and main.py:115; response['output'] raises KeyError when absent
ChatSuccess ==
    /\ pc = "resolved"
    /\ IF "output" \in DOMAIN rsp[1]
       THEN /\ chat_history' = AppendTurn(chat_history, user_input, rsp[1].output)
            /\ response' = rsp[1].output
            /\ out' = <<AgentResponse, rsp[1].output>>
            /\ calls' = Append(calls, [q |-> user_input, a |-> rsp[1].output, ok |-> TRUE])
            /\ inputs' = <<>>
            /\ rsp' = <<>>
            /\ pc' = "input"
            /\ UNCHANGED exc
       ELSE /\ exc' = [cls |-> "KeyError", origin |-> "response",
                       arg |-> <<"o", "u", "t", "p", "u", "t">>]
            /\ out' = <<>>
            /\ pc' = "chat_except"
            /\ UNCHANGED <<response, chat_history, inputs, rsp, calls>>
    /\ ev' = "ChatSuccess"
    /\ UNCHANGED <<user_input, nCalls, fresh>>

\* agent.py:117-123 and main.py:115; an exception the clause does not match leaves chat
ChatExcept ==
    /\ pc = "chat_except"
    /\ IF ChatCatches(exc.cls)
       THEN /\ chat_history' = AppendTurn(chat_history, user_input, ErrorMsg(exc))
            /\ response' = ErrorMsg(exc)
            /\ out' = <<ErrorLabel \o ErrorMsg(exc), AgentResponse, ErrorMsg(exc)>>
            /\ calls' = Append(calls, [q |-> user_input, a |-> ErrorMsg(exc), ok |-> FALSE])
            /\ exc' = NoExc
            /\ pc' = "input"
       ELSE /\ out' = <<>>
            /\ pc' = "loop_except"
            /\ UNCHANGED <<response, chat_history, calls, exc>>
    /\ inputs' = <<>>
    /\ rsp' = <<>>
    /\ ev' = "ChatExcept"
    /\ UNCHANGED <<user_input, nCalls, fresh>>

\* SIGINT raises KeyboardInterrupt in the shell thread: while input() waits
\* (main.py:88) or while a chat call runs (agent.py:98-115).
Interrupt ==
    /\ pc \in {"input", "chat", "engine", "resolved"}
    /\ exc' = KeyboardInterrupt
    /\ out' = <<>>
    /\ pc' = IF pc = "input" THEN "loop_except" ELSE "chat_except"
    /\ ev' = "Interrupt"
    /\ UNCHANGED <<user_input, response, chat_history, inputs, rsp, nCalls, calls, fresh>>

\* main.py:117-122  the except clauses of the loop's try
LoopExcept ==
    /\ pc = "loop_except"
    /\ IF LoopCatchesInterrupt(exc.cls)
       THEN /\ out' = <<Goodbye>>
            /\ exc' = NoExc
            /\ pc' = "done"
       ELSE IF LoopCatchesException(exc.cls)
       THEN /\ out' = <<UnexpectedError \o StrOf(exc), TryAgain>>
            /\ exc' = NoExc
            /\ pc' = "input"
       ELSE /\ out' = <<>>
            /\ pc' = "outer_except"
            /\ UNCHANGED exc
    /\ ev' = "LoopExcept"
    /\ UNCHANGED <<user_input, response, chat_history, inputs, rsp, nCalls, calls, fresh>>

\* main.py:121-122  SIGINT while the handler of the unexpected error prints:
\* the KeyboardInterrupt is raised inside an except clause and leaves the loop's try.
InterruptInHandler ==
    /\ pc = "loop_except"
    /\ ~LoopCatchesInterrupt(exc.cls)
    /\ LoopCatchesException(exc.cls)
    /\ exc' = [KeyboardInterrupt EXCEPT !.origin = "signal_in_handler"]
    /\ out' = <<UnexpectedError \o StrOf(exc)>>
    /\ pc' = "outer_except"
    /\ ev' = "InterruptInHandler"
    /\ UNCHANGED <<user_input, response, chat_history, inputs, rsp, nCalls, calls, fresh>>

\* main.py:124-126  the except clause of main's outer try; what it does not match
\* leaves main uncaught
OuterExcept ==
    /\ pc = "outer_except"
    /\ IF OuterCatches(exc.cls)
       THEN /\ out' = <<FailedToInitialize \o StrOf(exc), CheckConfiguration>>
            /\ exc' = NoExc
            /\ pc' = "done"
       ELSE /\ out' = <<>>
            /\ pc' = "crashed"
            /\ UNCHANGED exc
    /\ ev' = "OuterExcept"
    /\ UNCHANGED <<user_input, response, chat_history, inputs, rsp, nCalls, calls, fresh>>

Next ==
    \/ ShellQuit
    \/ ShellClear
    \/ ShellHistory
    \/ ShellEmpty
    \/ ShellQuestion
    \/ InputRaises
    \/ ChatAssemble
    \/ ChatAssembleRaises
    \/ EngineReturns
    \/ EngineRaises
    \/ ChatSuccess
    \/ ChatExcept
    \/ Interrupt
    \/ LoopExcept
    \/ InterruptInHandler
    \/ OuterExcept

Spec == Init /\ [][Next]_vars
-----------------------------------------------------------------------------
\* Vocabulary of the properties

\* This step is a return of input(): user_input' is the line it returned.
LineRead == pc = "input" /\ exc' = NoExc

\* s is w written in some letter case (w in lower case).
SameIgnoringCase(s, w) ==
    /\ Len(s) = Len(w)
    /\ \A i \in 1..Len(s) :
        \/ s[i] = w[i]
        \/ \E k \in DOMAIN UpperCase : UpperCase[k] = s[i] /\ LowerCase[k] = w[i]

IsCommand(s, words) == \E w \in words : SameIgnoringCase(s, w)

\* The last step was a return of input(): user_input is the line it returned.
LastStepRead ==
    ev \in {"ShellQuit", "ShellClear", "ShellHistory", "ShellEmpty", "ShellQuestion"}

AllWhitespace(s) == \A i \in 1..Len(s) : s[i] \in Whitespace

\* The turns the logged calls should have left in the history.
TurnsOf(log) == [i \in 1..Len(log) |-> <<log[i].q, log[i].a>>]

AllSucceeded(log) == \A i \in 1..Len(log) : log[i].ok

Failure == {"engine", "tool", "assembly", "response"}

LoopLeft == {"outer_except", "done", "crashed"}

RateLimit == <<"r", "a", "t", "e", " ", "l", "i", "m", "i", "t", " ", "e", "x", "c", "e", "e", "d", "e", "d">>

-----------------------------------------------------------------------------
\* C1: after chat calls that all succeeded since the start or the last clear, the
\* history holds exactly one turn per call, in call order, the i-th being the i-th
\* call's question with the answer that call returned.
C1_OneTurnPerCallInOrder ==
    AllSucceeded(calls) => chat_history = TurnsOf(calls)

C1_Witness ==
    /\ pc = "input"
    /\ Len(calls) = 2
    /\ AllSucceeded(calls)
    /\ calls[1].q # calls[2].q
    /\ calls[1].a # calls[2].a
    /\ Len(chat_history) = 2

\* C2: when the engine (or the tool) fails with description d during chat(q), the
\* call appends exactly the turn (q, "Execution error: " + d) at the end of the
\* history, leaves the earlier turns as they were, and returns that same text.
C2_FailureRecordedAndReturned ==
    [][ (pc = "chat_except" /\ exc.origin \in {"engine", "tool"})
        => /\ chat_history' = Append(chat_history, <<user_input, ErrorPrefix \o exc.arg>>)
           /\ response' = ErrorPrefix \o exc.arg ]_vars

C2_Witness ==
    /\ ev = "ChatExcept"
    /\ pc = "input"
    /\ Len(chat_history) = 2
    /\ chat_history[1][2] \in Answers
    /\ chat_history[2] = <<user_input, ErrorPrefix \o RateLimit>>
    /\ response = ErrorPrefix \o RateLimit

C4_ClearEmptiesHistory ==
    /\ (LastStepRead /\ IsCommand(user_input, ClearWords))
         => chat_history = <<>>
    /\ (LastStepRead /\ IsCommand(user_input, HistoryWords) /\ fresh)
         => out = <<NoHistoryNotice>>

C4_Witness ==
    /\ ev = "ShellHistory"
    /\ IsCommand(user_input, HistoryWords)
    /\ fresh
    /\ response # <<>>
    /\ out = <<NoHistoryNotice>>

\* C5: a line that is empty or holds only whitespace starts no chat call, leaves
\* the history as it was, and the shell goes on to the next input.
C5_BlankLineNeverReachesChat ==
    [][ (LineRead /\ AllWhitespace(user_input'))
        => /\ nCalls' = nCalls
           /\ chat_history' = chat_history
           /\ inputs' = <<>>
           /\ pc' = "input" ]_vars

C5_Witness ==
    /\ ev = "ShellEmpty"
    /\ user_input = <<" ", "\t">>
    /\ chat_history # <<>>
    /\ nCalls < MaxCalls

\* C6: a line that is quit, exit or q in any letter case ends the loop, the same
\* way for every spelling: no chat call for it, history untouched, the farewell
\* printed, and nothing is read or called afterwards.
C6_QuitEndsLoop ==
    [][ /\ (LineRead /\ IsCommand(user_input', QuitWords))
           => /\ pc' = "done"
              /\ out' = <<Goodbye>>
              /\ nCalls' = nCalls
              /\ chat_history' = chat_history
              /\ calls' = calls
        /\ (pc = "done" /\ IsCommand(user_input, QuitWords))
           => /\ pc' = "done"
              /\ user_input' = user_input
              /\ nCalls' = nCalls
              /\ chat_history' = chat_history ]_vars

C6_Witness ==
    /\ pc = "done"
    /\ ev = "ShellQuit"
    /\ user_input = <<"Q", "U", "I", "T">>
    /\ chat_history # <<>>
    /\ nCalls < MaxCalls

\* C7: the history command lists the turns numbered from 1 in history order; an
\* answer longer than 100 characters is shown as its first 100 characters followed
\* by "...", a shorter one as it is; the history is not changed.
C7_HistoryDisplay ==
    [][ (LineRead /\ IsCommand(user_input', HistoryWords) /\ chat_history # <<>>)
        => /\ chat_history' = chat_history
           /\ Len(out') = 1 + 2 * Len(chat_history)
           /\ \A i \in 1..Len(chat_history) :
                LET a == chat_history[i][2]
                    shown == SubSeq(out'[2 * i + 1], 7, Len(out'[2 * i + 1]))
                IN  /\ SubSeq(out'[2 * i], 1, 1) = <<Digits[i + 1]>>
                    /\ SubSeq(out'[2 * i], 7, Len(out'[2 * i])) = chat_history[i][1]
                    /\ Len(a) <= 100 => shown = a
                    /\ Len(a) > 100 =>
                         /\ Len(shown) = 103
                         /\ \A j \in 1..100 : shown[j] = a[j]
                         /\ \A j \in 101..103 : shown[j] = "." ]_vars

C7_Witness ==
    /\ ev = "ShellHistory"
    /\ Len(chat_history) = 2
    /\ Len(chat_history[1][2]) = TruncLen + 1
    /\ Len(chat_history[2][2]) = TruncLen
    /\ Len(out) = 5
    /\ Len(out[3]) = 6 + TruncLen + 3
    /\ Len(out[5]) = 6 + TruncLen

\* C8: the loop is left only by a quit command or an interrupt; any other failure
\* of an iteration, a failing input() included, is reported and the shell goes
\* back to reading input.
C8_LoopSurvivesFailures ==
    [][ /\ (pc \notin LoopLeft /\ pc' \in LoopLeft)
           => \/ LineRead /\ IsCommand(user_input', QuitWords)
              \/ exc.cls = "KeyboardInterrupt"
              \/ exc'.cls = "KeyboardInterrupt"
        /\ (pc = "loop_except" /\ exc.cls # "KeyboardInterrupt"
                               /\ exc'.cls # "KeyboardInterrupt")
           => /\ pc' = "input"
              /\ exc' = NoExc
              /\ out' = <<UnexpectedError \o exc.arg, TryAgain>>
              /\ chat_history' = chat_history ]_vars

C8_Witness ==
    /\ ev = "LoopExcept"
    /\ pc = "input"
    /\ exc = NoExc
    /\ out = <<UnexpectedError \o EOFText, TryAgain>>
    /\ chat_history # <<>>

\* C9: an interrupt that arrives while the shell waits for input or while a chat
\* call runs ends the whole loop with the farewell: it is not turned into an
\* answer of the call, no line is read and no chat call is started after it.
C9_InterruptEndsLoop ==
    [][ /\ (exc.cls = "KeyboardInterrupt" /\ exc.origin = "signal")
           => /\ pc \in {"chat_except", "loop_except"}
              /\ pc' = IF pc = "chat_except" THEN "loop_except" ELSE "done"
              /\ pc' = "done" => out' = <<Goodbye>>
              /\ user_input' = user_input
              /\ nCalls' = nCalls
              /\ chat_history' = chat_history
        /\ (pc = "done" /\ ev = "LoopExcept")
           => /\ pc' = "done"
              /\ user_input' = user_input
              /\ nCalls' = nCalls ]_vars

C9_Witness ==
    /\ pc = "done"
    /\ ev = "LoopExcept"
    /\ out = <<Goodbye>>
    /\ ~fresh
    /\ calls = <<>>
    /\ chat_history = <<>>
    /\ nCalls = 1

\* C10: while the engine call is in progress the history is what it was before the
\* call: the request holds exactly the turns of the calls completed since the last
\* clear, without the current question; the history grows by one turn only in a
\* step taken after the engine call has resolved.
C10_HistoryUntouchedDuringCall ==
    /\ [](pc = "engine"
           => /\ Len(inputs) = 1
              /\ inputs[1].query = user_input
              /\ inputs[1].chat_history = TurnsOf(calls)
              /\ chat_history = TurnsOf(calls))
    /\ [][ /\ pc \in {"chat", "engine"} => chat_history' = chat_history
           /\ Len(chat_history') > Len(chat_history)
              => /\ pc \in {"resolved", "chat_except"}
                 /\ Len(chat_history') = Len(chat_history) + 1 ]_vars

C10_Witness ==
    /\ pc = "engine"
    /\ Len(chat_history) = 1
    /\ Len(inputs) = 1
    /\ inputs[1].chat_history = chat_history
    /\ inputs[1].query # chat_history[1][1]
====
